---- MODULE Spec2Model ----
(***************************************************************************)
(* Session lifecycle controller of the voice cooking app:                  *)
(*   src/src/hooks/useElevenLabsConversation.ts  (the hook)                *)
(*   src/src/lib/sessionGuard.ts                 (generation / teardown)   *)
(*   src/unnamed/part_001                        (GET /api/signed-url)     *)
(*   src/src/components/VoiceCooking.tsx         (the component)           *)
(* One hook instance.  Every action is one synchronous run of code: a call *)
(* of connect()/disconnect(), the continuation of one of them after an     *)
(* await, an effect setup/cleanup, a timer, or a callback of the voice SDK.*)
(* The voice SDK, the microphone, the AudioContext and fetch are outside   *)
(* the repository: their outcomes are chosen nondeterministically.         *)
(*                                                                         *)
(* Every await is a point where any other action may run.  JavaScript runs *)
(* promise continuations before the next timer or event, so this allows    *)
(* more interleavings than the event loop does, never fewer.               *)
(*                                                                         *)
(* hist, conn[i].overlap / fetched / end / pendingAtPass / res and         *)
(* disc[d].ended / statusAtReturn are history: they record what happened   *)
(* and no action reads them, apart from hist.ops, which bounds the         *)
(* behaviour.                                                              *)
(***************************************************************************)
EXTENDS Integers, Sequences, FiniteSets, TLC

\* ---------------------------------------------------------------- bounds
\* External stimuli in one behaviour: connect() and disconnect() calls, unmounts,
\* beforeunload events and message callbacks, counted together.
MaxOps == 3
\* taps on the buttons that run handleStart
MaxTaps == 3

ConnIds == 1..MaxOps
DiscIds == 1..MaxOps

\* teardownPromise = null (sessionGuard.ts line 52)
NoTeardown == 0

Statuses == {"idle", "connecting", "connected", "disconnected", "error"}
\* What the SDK hands to onMessage: { source, message }
Messages == {[source |-> "ai", message |-> "Welcome"],
             [source |-> "user", message |-> "hi"],
             [source |-> "tool", message |-> "hi"]}

VARIABLES
    status,           \* useState<ConversationStatus>
    transcript,       \* useState<TranscriptEntry[]>
    generation,       \* sessionGuard: let generation
    teardownPromise,  \* sessionGuard: let teardownPromise (NoTeardown or the disconnect that made it)
    isConnecting,     \* sessionGuard: let isConnecting
    userDisconnected, \* userDisconnectedRef.current
    cleanupTimer,     \* cleanupTimerRef.current: [armed, gen], gen = genAtMount of the closure
    mounted,          \* the lifecycle effect is set up
    genAtMount,       \* const genAtMount of the current effect run
    conn,             \* connect() invocations: position and locals
    disc,             \* disconnect() invocations: position
    sess,             \* the SDK session started by each connect() invocation
    clock,            \* Date.now(), advanced by one at every message callback
    hist,             \* history: what has been called so far
    route,            \* GET /api/signed-url: two invocations side by side
    view              \* the VoiceCooking component: what it renders, its effect, its refs

vars == <<status, transcript, generation, teardownPromise, isConnecting,
          userDisconnected, cleanupTimer, mounted, genAtMount, conn, disc,
          sess, clock, hist, route, view>>

guardVars == <<generation, teardownPromise, isConnecting>>
lifecycleVars == <<cleanupTimer, mounted, genAtMount>>
hookVars == <<status, transcript, guardVars, userDisconnected, lifecycleVars,
              conn, disc, sess, clock, hist>>

NoTimer == [armed |-> FALSE, gen |-> 0]

\* A connect() invocation: pc is its position, gen / awaited / stream its locals
\* (const gen, the promise awaited in waitForTeardown, the microphone stream held);
\* overlap, fetched and end record what it saw and did; pendingAtPass the unsettled
\* teardown it found at the overlap check, res the response it went on with,
\* unlock how the AudioContext warm-up went (kept until the fetch settles),
\* signedUrl what res.json() gave and startedWith what startSession() was given.
IdleConn == [pc |-> "idle", gen |-> 0, awaited |-> NoTeardown, stream |-> FALSE,
             overlap |-> FALSE, fetched |-> FALSE, end |-> "none",
             pendingAtPass |-> NoTeardown, res |-> "none",
             unlock |-> "none", signedUrl |-> 0, startedWith |-> 0]

\* A disconnect() invocation: its position, how its endSession() settled and the
\* status it set when it returned.
IdleDisc == [pc |-> "idle", ended |-> "none", statusAtReturn |-> "none"]

\* The two invocations of the route that are run side by side.
Runs == {"a", "b"}
\* process.env values: unset, empty, or set
Undefined == "undefined"
AgentIds == {Undefined, "", "agent-1"}
ApiKeys == {Undefined, "", "key-1", "key-2"}
\* What the upstream fetch can do: throw, or resolve with a status and a body that
\* reads as a signed URL or cannot be read.
Unreadable == "unreadable"
UpstreamStatuses == {200, 401, 503}
UpstreamBodies == {"wss://signed-1", "wss://signed-2", Unreadable}
UpstreamOutcomes ==
    {[kind |-> "throws", status |-> 0, body |-> "none"]} \cup
    [kind : {"response"}, status : UpstreamStatuses, body : UpstreamBodies]
NoOutcome == [kind |-> "none", status |-> 0, body |-> "none"]
NoRequest == [agent_id |-> "none", xiApiKey |-> "none"]
NoResponse == [status |-> 0, error |-> "none", signedUrl |-> "none"]
\* A route invocation that has not been called, with its environment.
IdleRoute(agentId, apiKey) ==
    [pc |-> "idle", agentId |-> agentId, apiKey |-> apiKey,
     request |-> NoRequest, upstream |-> NoOutcome, response |-> NoResponse]

\* The VoiceCooking component as first rendered: status is the hook's status as
\* rendered, hidden is document.hidden, hasTranscript is transcript.length > 0;
\* listening says that a run of the keep-alive effect has its visibilitychange
\* listener registered, audioCtx and oscillator are the locals of that run;
\* contexts counts the AudioContexts the effect made and has not closed, signal
\* says that a started oscillator of the effect has not been stopped; isStarting
\* is isStartingRef.current, outstanding counts the connect() calls of handleStart
\* that have not settled; taps, calls, settled and closedOne are history.
IdleView ==
    [status |-> "idle", hidden |-> FALSE, hasTranscript |-> FALSE,
     listening |-> FALSE, audioCtx |-> "null", oscillator |-> "null",
     contexts |-> 0, signal |-> FALSE,
     isStarting |-> FALSE, hasStarted |-> FALSE, outstanding |-> 0,
     taps |-> 0, calls |-> 0, settled |-> "none", closedOne |-> FALSE]

HookInit ==
    /\ status = "idle"
    /\ transcript = <<>>
    /\ generation = 0
    /\ teardownPromise = NoTeardown
    /\ isConnecting = FALSE
    /\ userDisconnected = FALSE
    /\ cleanupTimer = NoTimer
    /\ mounted = TRUE
    /\ genAtMount = 0
    /\ conn = [i \in ConnIds |-> IdleConn]
    /\ disc = [d \in DiscIds |-> IdleDisc]
    /\ sess = [i \in ConnIds |-> "none"]
    /\ clock = 0
    /\ hist = [ops |-> 0, resets |-> 0, received |-> <<>>, endByDisconnect |-> 0,
               endByCleanup |-> 0, endByUnload |-> 0, timerFires |-> 0,
               firedUnmounted |-> 0,
               unmounts |-> 0, mounts |-> 0, passedAtUnmount |-> 0,
               genAtUnmount |-> 0,
               lateDisconnect |-> FALSE]

\* The hook, with the route and the component left alone.
Init ==
    /\ HookInit
    /\ route = [r \in Runs |-> IdleRoute(Undefined, Undefined)]
    /\ view = IdleView

\* ------------------------------------------------------------ the SDK
\* conversationRef.current.endSession(): the session(s) the SDK holds start closing.
EndSession(s) ==
    [i \in ConnIds |-> IF s[i] \in {"starting", "open"} THEN "closing" ELSE s[i]]

TeardownSettled_Never(d) == FALSE

\* A teardown promise made by disconnect() d has settled.
TeardownSettled(d) == disc[d].pc \in {"awaitTeardown", "done"}

\* ------------------------------------------------------------ callbacks
\* onConnect
OnConnect(i) ==
    /\ sess[i] = "starting"
    /\ sess' = [sess EXCEPT ![i] = "open"]
    /\ status' = "connected"
    /\ UNCHANGED <<transcript, guardVars, userDisconnected, lifecycleVars,
                   conn, disc, clock, hist>>
    /\ UNCHANGED <<route, view>>

\* Faulty variant: onDisconnect ignores the user-disconnected flag.
StatusOnDisconnect_Always == "disconnected"

\* Faulty variant: onDisconnect always falls back to idle.
StatusOnDisconnect_Idle == "idle"

\* onDisconnect: if (userDisconnectedRef.current) setStatus("disconnected")
StatusOnDisconnect == IF userDisconnected THEN "disconnected" ELSE status

OnDisconnect(i) ==
    /\ sess[i] \in {"open", "closing"}
    /\ sess' = [sess EXCEPT ![i] = "closed"]
    /\ status' = StatusOnDisconnect
    /\ hist' = [hist EXCEPT !.lateDisconnect =
                    @ \/ (/\ status = "disconnected"
                          /\ \E d \in DiscIds : disc[d].pc = "done"
                          /\ \E j \in ConnIds : conn[j].end = "ok")]
    /\ UNCHANGED <<transcript, guardVars, userDisconnected, lifecycleVars,
                   conn, disc, clock>>
    /\ UNCHANGED <<route, view>>

\* Faulty variant: onError reports every error.
StatusOnError_Always == "error"

\* onError: if (!guard.getIsConnecting()) setStatus("error")
StatusOnError == IF ~isConnecting THEN "error" ELSE status

OnError(i) ==
    /\ sess[i] \in {"starting", "open", "closing"}
    /\ status' = StatusOnError
    /\ UNCHANGED <<transcript, guardVars, userDisconnected, lifecycleVars,
                   conn, disc, sess, clock, hist>>
    /\ UNCHANGED <<route, view>>

\* Faulty variant: the roles are swapped.
RoleOf_Swapped(source) == IF source = "ai" THEN "user" ELSE "agent"

\* const role = message.source === "ai" ? "agent" : "user"
RoleOf(source) == IF source = "ai" THEN "agent" ELSE "user"

\* setTranscript((prev) => [...prev, entry])
AppendEntry(prev, entry) == Append(prev, entry)

OnMessage(i, m) ==
    /\ sess[i] \in {"open", "closing"}
    /\ hist.ops < MaxOps
    /\ clock' = clock + 1
    /\ transcript' = AppendEntry(transcript,
                        [role |-> RoleOf(m.source), text |-> m.message,
                         timestamp |-> clock'])
    /\ hist' = [hist EXCEPT !.ops = @ + 1, !.received = Append(@, m)]
    /\ UNCHANGED <<status, guardVars, userDisconnected, lifecycleVars,
                   conn, disc, sess>>
    /\ UNCHANGED <<route, view>>

\* ------------------------------------------------------------ connect()
\* Faulty variant: the overlap check is missing.
Overlapping_Missing == FALSE

\* if (guard.getIsConnecting()) return;
Overlapping == isConnecting

\* Faulty variant: connect() forgets to clear the transcript.
ResetTranscript_Forgotten == transcript

\* setTranscript([])
ResetTranscript == <<>>

\* Faulty variant: connect() leaves a pending cleanup timer alone.
TimerAfterConnect_NotCleared == cleanupTimer

\* connect(): clearTimeout(cleanupTimerRef.current); cleanupTimerRef.current = null
TimerAfterConnect == NoTimer

\* connect() is called: up to the first await (guard.waitForTeardown()).
Connect(i) ==
    /\ conn[i].pc = "idle"
    /\ \A j \in ConnIds : j < i => conn[j].pc # "idle"
    /\ hist.ops < MaxOps
    /\ cleanupTimer' = TimerAfterConnect
    /\ IF Overlapping
       THEN /\ conn' = [conn EXCEPT ![i].pc = "done", ![i].end = "noop",
                                    ![i].overlap = isConnecting]
            /\ hist' = [hist EXCEPT !.ops = @ + 1]
            /\ UNCHANGED <<status, transcript, guardVars, userDisconnected>>
       ELSE /\ isConnecting' = TRUE
            /\ userDisconnected' = FALSE
            /\ status' = "connecting"
            /\ transcript' = ResetTranscript
            /\ hist' = [hist EXCEPT !.ops = @ + 1, !.resets = @ + 1,
                                     !.received = <<>>]
            /\ conn' = [conn EXCEPT ![i].pc = "waitTeardown",
                                    ![i].awaited = teardownPromise,
                                    ![i].overlap = isConnecting,
                                    ![i].pendingAtPass =
                                        IF teardownPromise = NoTeardown
                                        THEN NoTeardown
                                        ELSE IF TeardownSettled(teardownPromise)
                                             THEN NoTeardown
                                             ELSE teardownPromise]
            /\ UNCHANGED <<generation, teardownPromise>>
    /\ UNCHANGED <<mounted, genAtMount, disc, sess, clock>>
    /\ UNCHANGED <<route, view>>

\* Faulty variant: the catch block forgets guard.setIsConnecting(false).
ConnectFail_StaysConnecting(i, why) ==
    /\ isConnecting' = isConnecting
    /\ status' = "error"
    /\ conn' = [conn EXCEPT ![i].pc = "done", ![i].end = why, ![i].unlock = "none"]

\* catch (error) { guard.setIsConnecting(false); setStatus("error"); }
ConnectFail(i, why) ==
    /\ isConnecting' = FALSE
    /\ status' = "error"
    /\ conn' = [conn EXCEPT ![i].pc = "done", ![i].end = why, ![i].unlock = "none"]

\* Faulty variant: connect() does not wait for the teardown.
TeardownAwaited_NoWait(i) == TRUE

\* waitForTeardown(): the awaited teardown promise, if any, has settled.
TeardownAwaited(i) ==
    IF conn[i].awaited = NoTeardown THEN TRUE ELSE TeardownSettled(conn[i].awaited)

\* Faulty variant: nextGeneration() does not advance the counter.
NextGeneration_NoIncrement == generation

\* nextGeneration(): return ++generation
NextGeneration == generation + 1

\* After waitForTeardown(): clear the handle, mint the generation, ask for the microphone.
ConnectAfterTeardown(i) ==
    /\ conn[i].pc = "waitTeardown"
    /\ TeardownAwaited(i)
    /\ teardownPromise' = IF conn[i].awaited # NoTeardown THEN NoTeardown
                          ELSE teardownPromise
    /\ generation' = NextGeneration
    /\ conn' = [conn EXCEPT ![i].pc = "awaitMic", ![i].gen = generation',
                            ![i].awaited = NoTeardown]
    /\ UNCHANGED <<status, transcript, isConnecting, userDisconnected,
                   lifecycleVars, disc, sess, clock, hist>>
    /\ UNCHANGED <<route, view>>

\* if (guard.currentGeneration() !== gen)
Superseded(i) == generation # conn[i].gen

\* Faulty variant: the tracks of the stream are never stopped.
ReleaseStream_Forgotten == TRUE

\* stream.getTracks().forEach((t) => t.stop()): connect() holds the stream no more
ReleaseStream == FALSE

\* Release the microphone, generation check, fetch("/api/signed-url").
ProceedToFetch(i, unlocked) ==
    IF Superseded(i)
    THEN /\ isConnecting' = FALSE
         /\ conn' = [conn EXCEPT ![i].pc = "done", ![i].end = "bail",
                                 ![i].stream = ReleaseStream]
    ELSE /\ conn' = [conn EXCEPT ![i].pc = "awaitFetch", ![i].stream = ReleaseStream,
                                 ![i].fetched = TRUE, ![i].unlock = unlocked]
         /\ UNCHANGED isConnecting

\* Faulty variant: no try/catch around the warm-up, its failure reaches the outer catch.
UnlockSwallowed_Rethrown(failed) == ~failed

\* try { new AudioContext() ... } catch { }: connect() goes on whether it failed or not
UnlockSwallowed(failed) == TRUE

AudioStates == {"running", "suspended", "throws"}

\* getUserMedia settles; then the AudioContext warm-up up to ctx.resume().
MicSettled(i, granted, audio) ==
    /\ conn[i].pc = "awaitMic"
    /\ IF ~granted
       THEN ConnectFail(i, "micDenied")
       ELSE IF audio = "suspended"
            THEN /\ conn' = [conn EXCEPT ![i].pc = "awaitResume", ![i].stream = TRUE]
                 /\ UNCHANGED <<status, isConnecting>>
            ELSE IF UnlockSwallowed(audio = "throws")
                 THEN /\ ProceedToFetch(i, IF audio = "throws" THEN "failed" ELSE "ok")
                      /\ UNCHANGED status
                 ELSE ConnectFail(i, "unlockFailed")
    /\ UNCHANGED <<transcript, generation, teardownPromise, userDisconnected,
                   lifecycleVars, disc, sess, clock, hist>>
    /\ UNCHANGED <<route, view>>

\* ctx.resume() settles; a rejection is swallowed by the inner catch.
ResumeSettled(i, ok) ==
    /\ conn[i].pc = "awaitResume"
    /\ IF UnlockSwallowed(~ok)
       THEN /\ ProceedToFetch(i, IF ok THEN "ok" ELSE "failed")
            /\ UNCHANGED status
       ELSE ConnectFail(i, "unlockFailed")
    /\ UNCHANGED <<transcript, generation, teardownPromise,
                   userDisconnected, lifecycleVars, disc, sess, clock, hist>>
    /\ UNCHANGED <<route, view>>

FetchOutcomes == {"ok", "notOk", "throws"}

\* Faulty variant: the response status is not checked.
ResponseOk_Unchecked(outcome) == outcome # "throws"

\* if (!res.ok) throw new Error(...): the fetch resolved with a success status
ResponseOk(outcome) == outcome = "ok"

\* fetch settles: if (!res.ok) throw; then res.json() is awaited.
FetchSettled(i, outcome) ==
    /\ conn[i].pc = "awaitFetch"
    /\ IF ResponseOk(outcome)
       THEN /\ conn' = [conn EXCEPT ![i].pc = "awaitJson", ![i].res = outcome,
                                    ![i].unlock = "none"]
            /\ UNCHANGED <<status, isConnecting>>
       ELSE ConnectFail(i, IF outcome = "notOk" THEN "notOk" ELSE "fetchFailed")
    /\ UNCHANGED <<transcript, generation, teardownPromise, userDisconnected,
                   lifecycleVars, disc, sess, clock, hist>>
    /\ UNCHANGED <<route, view>>

\* The signed URL the route hands to connect() i: a fresh one for every request.
SignedUrlFor(i) == i

\* Faulty variant: startSession() is given a signed URL kept from the first attempt.
StartArg_Stale(signedUrl) == SignedUrlFor(1)

\* startSession({ signedUrl, ... }): the signed URL passed to the SDK
StartArg(signedUrl) == signedUrl

\* res.json() settles; generation check; conversationRef.current.startSession().
JsonSettled(i, ok) ==
    /\ conn[i].pc = "awaitJson"
    /\ IF ~ok
       THEN ConnectFail(i, "fetchFailed") /\ UNCHANGED sess
       ELSE IF Superseded(i)
            THEN /\ isConnecting' = FALSE
                 /\ conn' = [conn EXCEPT ![i].pc = "done", ![i].end = "bail"]
                 /\ UNCHANGED <<status, sess>>
            ELSE /\ conn' = [conn EXCEPT ![i].pc = "awaitStart",
                                         ![i].signedUrl = SignedUrlFor(i),
                                         ![i].startedWith = StartArg(SignedUrlFor(i))]
                 /\ sess' = [sess EXCEPT ![i] = "starting"]
                 /\ UNCHANGED <<status, isConnecting>>
    /\ UNCHANGED <<transcript, generation, teardownPromise, userDisconnected,
                   lifecycleVars, disc, clock, hist>>
    /\ UNCHANGED <<route, view>>

\* startSession settles: guard.setIsConnecting(false), or the catch block.
StartSettled(i, ok) ==
    /\ conn[i].pc = "awaitStart"
    /\ IF ok
       THEN /\ sess[i] # "starting"
            /\ isConnecting' = FALSE
            /\ conn' = [conn EXCEPT ![i].pc = "done", ![i].end = "ok"]
            /\ UNCHANGED <<status, sess>>
       ELSE /\ sess[i] \in {"starting", "closing"}
            /\ sess' = [sess EXCEPT ![i] = "closed"]
            /\ ConnectFail(i, "startFailed")
    /\ UNCHANGED <<transcript, generation, teardownPromise, userDisconnected,
                   lifecycleVars, disc, clock, hist>>
    /\ UNCHANGED <<route, view>>

\* --------------------------------------------------------- disconnect()
\* disconnect() is called: up to the await of endSession() inside the teardown.
Disconnect(d) ==
    /\ disc[d].pc = "idle"
    /\ \A e \in DiscIds : e < d => disc[e].pc # "idle"
    /\ hist.ops < MaxOps
    /\ userDisconnected' = TRUE
    /\ sess' = EndSession(sess)
    /\ hist' = [hist EXCEPT !.ops = @ + 1, !.endByDisconnect = @ + 1]
    /\ teardownPromise' = d
    /\ disc' = [disc EXCEPT ![d].pc = "awaitEnd"]
    /\ UNCHANGED <<status, transcript, generation, isConnecting,
                   lifecycleVars, conn, clock>>
    /\ UNCHANGED <<route, view>>

\* Faulty variant: no try/catch around endSession(), a rejection leaves disconnect() rejected.
AfterEndSession_NoCatch(ok) == IF ok THEN "awaitTeardown" ELSE "threw"

\* try { await endSession() } catch { }: where the teardown goes on either outcome.
AfterEndSession(ok) == "awaitTeardown"

\* endSession() of disconnect() d settles; the teardown promise resolves.
EndSessionSettled(d, ok) ==
    /\ disc[d].pc = "awaitEnd"
    /\ disc' = [disc EXCEPT ![d].pc = AfterEndSession(ok),
                            ![d].ended = IF ok THEN "resolved" ELSE "rejected"]
    /\ UNCHANGED <<status, transcript, guardVars, userDisconnected,
                   lifecycleVars, conn, sess, clock, hist>>
    /\ UNCHANGED <<route, view>>

\* setStatus("disconnected") after await teardown
StatusAfterTeardown == "disconnected"

\* disconnect() resumes after await teardown and returns.
DisconnectReturn(d) ==
    /\ disc[d].pc = "awaitTeardown"
    /\ status' = StatusAfterTeardown
    /\ disc' = [disc EXCEPT ![d].pc = "done", ![d].statusAtReturn = status']
    /\ UNCHANGED <<transcript, guardVars, userDisconnected, lifecycleVars,
                   conn, sess, clock, hist>>
    /\ UNCHANGED <<route, view>>

\* ------------------------------------------------------------ lifecycle
\* Effect setup: cancel a pending cleanup, capture genAtMount.
\* Faulty variant: the mount does not cancel the pending cleanup.
TimerAfterMount_NotCleared == cleanupTimer

\* if (cleanupTimerRef.current) { clearTimeout(...); cleanupTimerRef.current = null; }
TimerAfterMount == NoTimer

Mount ==
    /\ ~mounted
    /\ cleanupTimer' = TimerAfterMount
    /\ genAtMount' = generation
    /\ mounted' = TRUE
    /\ hist' = [hist EXCEPT !.mounts = @ + 1]
    /\ UNCHANGED <<status, transcript, guardVars, userDisconnected,
                   conn, disc, sess, clock>>
    /\ UNCHANGED <<route, view>>

\* Effect cleanup: schedule the delayed teardown.
Unmount ==
    /\ mounted
    /\ hist.ops < MaxOps
    /\ cleanupTimer' = [armed |-> TRUE, gen |-> genAtMount]
    /\ mounted' = FALSE
    /\ hist' = [hist EXCEPT !.ops = @ + 1, !.unmounts = @ + 1,
                             !.passedAtUnmount = hist.resets,
                             !.genAtUnmount = generation]
    /\ UNCHANGED <<status, transcript, guardVars, userDisconnected,
                   genAtMount, conn, disc, sess, clock>>
    /\ UNCHANGED <<route, view>>

\* Faulty variant: the timer ends the session whatever the generation is.
CleanupShouldEnd_Always(g) == TRUE

\* if (guard.currentGeneration() === genAtMount)
CleanupShouldEnd(g) == generation = g


\* The 150 ms timer fires.
CleanupTimerFires ==
    /\ cleanupTimer.armed
    /\ cleanupTimer' = NoTimer
    /\ IF CleanupShouldEnd(cleanupTimer.gen)
       THEN /\ sess' = EndSession(sess)
            /\ hist' = [hist EXCEPT !.endByCleanup = @ + 1, !.timerFires = @ + 1,
                                     !.firedUnmounted = @ + (IF mounted THEN 0 ELSE 1)]
       ELSE /\ hist' = [hist EXCEPT !.timerFires = @ + 1,
                                     !.firedUnmounted = @ + (IF mounted THEN 0 ELSE 1)]
            /\ UNCHANGED sess
    /\ UNCHANGED <<status, transcript, guardVars, userDisconnected,
                   mounted, genAtMount, conn, disc, clock>>
    /\ UNCHANGED <<route, view>>

\* Faulty variant: the handler ends the session only for the generation of the mount.
UnloadShouldEnd_SameGeneration == generation = genAtMount

\* handleBeforeUnload calls endSession() whatever the status and the generation are
UnloadShouldEnd == TRUE

\* handleBeforeUnload: try { endSession() } catch { }; threw: the call threw at once
BeforeUnload(threw) ==
    /\ mounted
    /\ hist.ops < MaxOps
    /\ IF UnloadShouldEnd
       THEN /\ sess' = IF threw THEN sess ELSE EndSession(sess)
            /\ hist' = [hist EXCEPT !.ops = @ + 1, !.endByUnload = @ + 1]
       ELSE /\ sess' = sess
            /\ hist' = [hist EXCEPT !.ops = @ + 1]
    /\ UNCHANGED <<status, transcript, guardVars, userDisconnected,
                   lifecycleVars, conn, disc, clock>>
    /\ UNCHANGED <<route, view>>

\* ------------------------------------------------------------ GET /api/signed-url
\* Faulty variant: only the agent id is checked.
ConfigMissing_KeyUnchecked(agentId, apiKey) == agentId \in {Undefined, ""}

\* if (!agentId || !apiKey)
ConfigMissing(agentId, apiKey) ==
    agentId \in {Undefined, ""} \/ apiKey \in {Undefined, ""}

\* response.ok: the status is in the range 200-299
UpstreamOk(outcome) == outcome.status >= 200 /\ outcome.status <= 299

\* NextResponse.json({ error: "Missing ElevenLabs configuration" }, { status: 500 })
MissingConfigResponse ==
    [status |-> 500, error |-> "Missing ElevenLabs configuration", signedUrl |-> "none"]

\* Faulty variant: the error payload repeats the key that was sent.
NotOkResponse_EchoesKey(r) ==
    [status |-> route[r].upstream.status, error |-> route[r].apiKey,
     signedUrl |-> "none"]

\* NextResponse.json({ error: "Failed to get signed URL" }, { status: response.status })
NotOkResponse(r) ==
    [status |-> route[r].upstream.status, error |-> "Failed to get signed URL",
     signedUrl |-> "none"]

\* NextResponse.json({ signedUrl: data.signed_url })
SignedUrlResponse(r) ==
    [status |-> 200, error |-> "none", signedUrl |-> route[r].upstream.body]

\* catch (error): NextResponse.json({ error: "Internal server error" }, { status: 500 })
InternalErrorResponse ==
    [status |-> 500, error |-> "Internal server error", signedUrl |-> "none"]

\* GET() is called: the configuration check, then the upstream fetch is issued.
RouteGet(r) ==
    /\ route[r].pc = "idle"
    /\ IF ConfigMissing(route[r].agentId, route[r].apiKey)
       THEN route' = [route EXCEPT ![r].pc = "done",
                                   ![r].response = MissingConfigResponse]
       ELSE route' = [route EXCEPT ![r].pc = "awaitFetch",
                                   ![r].request = [agent_id |-> route[r].agentId,
                                                   xiApiKey |-> route[r].apiKey]]
    /\ UNCHANGED <<hookVars, view>>

\* The upstream fetch settles: it throws, or response.text() / response.json() is awaited.
RouteFetchSettled(r, outcome) ==
    /\ route[r].pc = "awaitFetch"
    /\ IF outcome.kind = "throws"
       THEN route' = [route EXCEPT ![r].pc = "done", ![r].upstream = outcome,
                                   ![r].response = InternalErrorResponse]
       ELSE route' = [route EXCEPT ![r].pc = IF UpstreamOk(outcome) THEN "awaitJson"
                                                                    ELSE "awaitText",
                                   ![r].upstream = outcome]
    /\ UNCHANGED <<hookVars, view>>

\* response.text() settles on a response that is not ok.
RouteTextSettled(r) ==
    /\ route[r].pc = "awaitText"
    /\ route' = [route EXCEPT ![r].pc = "done",
                              ![r].response =
                                  IF route[r].upstream.body = Unreadable
                                  THEN InternalErrorResponse
                                  ELSE NotOkResponse(r)]
    /\ UNCHANGED <<hookVars, view>>

\* response.json() settles on a response that is ok.
RouteJsonSettled(r) ==
    /\ route[r].pc = "awaitJson"
    /\ route' = [route EXCEPT ![r].pc = "done",
                              ![r].response =
                                  IF route[r].upstream.body = Unreadable
                                  THEN InternalErrorResponse
                                  ELSE SignedUrlResponse(r)]
    /\ UNCHANGED <<hookVars, view>>

\* The route in every environment: one agent id, a key for each invocation.
RouteInit ==
    /\ HookInit
    /\ \E agentId \in AgentIds : \E keys \in [Runs -> ApiKeys] :
            route = [r \in Runs |-> IdleRoute(agentId, keys[r])]
    /\ view = IdleView

RouteNext ==
    \/ \E r \in Runs : RouteGet(r)
    \/ \E r \in Runs, outcome \in UpstreamOutcomes : RouteFetchSettled(r, outcome)
    \/ \E r \in Runs : RouteTextSettled(r)
    \/ \E r \in Runs : RouteJsonSettled(r)

RouteSpec == RouteInit /\ [][RouteNext]_vars

\* ------------------------------------------------------------ the component
\* VoiceCooking.tsx.  The hook is seen from outside: its status and transcript
\* change between renders, connect() is a promise that resolves or rejects.  Of
\* the calls in the keep-alive's try block only the AudioContext constructor is
\* taken to throw: createOscillator, createGain, connect and the first start() of
\* an oscillator have no failure of their own, and close() rejects, never throws.

\* The statuses a render can follow with: no setStatus of the hook sets "idle",
\* and the first one is connect()'s "connecting".
NextStatuses(s) == IF s = "idle" THEN {"connecting"} ELSE Statuses \ {"idle", s}

EffectCleanup_NoClose(v) ==
    [v EXCEPT !.listening = FALSE, !.audioCtx = "null", !.oscillator = "null"]

\* Cleanup of a run of the keep-alive effect: the listener is removed, the
\* oscillator stopped and the context closed, if the run holds them.
EffectCleanup(v) ==
    IF ~v.listening THEN v
    ELSE [v EXCEPT !.listening = FALSE,
                   !.signal = IF v.oscillator = "started" THEN FALSE ELSE @,
                   !.contexts = IF v.audioCtx = "open" THEN @ - 1 ELSE @,
                   !.closedOne = @ \/ v.audioCtx = "open",
                   !.audioCtx = "null", !.oscillator = "null"]

\* A run of the keep-alive effect under status s: nothing unless connected, else
\* fresh locals and the listener; document.hidden is not read here.
EffectSetup(v, s) ==
    [v EXCEPT !.status = s, !.listening = (s = "connected"),
              !.audioCtx = "null", !.oscillator = "null"]

\* The hook's status changes: the component renders, the effect of the last
\* render is cleaned up and the effect runs again.
StatusChanges(s) ==
    /\ s \in NextStatuses(view.status)
    /\ view' = EffectSetup(EffectCleanup(view), s)
    /\ UNCHANGED <<hookVars, route>>

\* handleVisibilityChange, with document.hidden already changed; created says
\* whether new AudioContext() returned.
HandleVisibilityChange(v, created) ==
    IF v.hidden /\ v.audioCtx = "null"
    THEN IF created
         THEN [v EXCEPT !.audioCtx = "open", !.oscillator = "started",
                        !.contexts = @ + 1, !.signal = TRUE]
         ELSE v
    ELSE IF ~v.hidden /\ v.audioCtx # "null"
         THEN [v EXCEPT !.audioCtx = "null", !.oscillator = "null",
                        !.contexts = @ - 1, !.signal = FALSE, !.closedOne = TRUE]
         ELSE v

\* The page is hidden or shown: the listener runs if a run of the effect has one.
VisibilityChange(created) ==
    /\ LET v == [view EXCEPT !.hidden = ~@]
       IN  view' = IF v.listening THEN HandleVisibilityChange(v, created) ELSE v
    /\ UNCHANGED <<hookVars, route>>

\* The transcript of the hook becomes empty or non-empty.
TranscriptChanges ==
    /\ view' = [view EXCEPT !.hasTranscript = ~@]
    /\ UNCHANGED <<hookVars, route>>

\* One of the buttons wired to handleStart is rendered: "Start Cooking",
\* "Try again" or "Start over".
StartButtonShown(v) ==
    \/ ~v.hasStarted
    \/ v.status = "error"
    \/ v.status = "disconnected" /\ v.hasTranscript

AlreadyStarting_Unchecked(v) == FALSE

\* if (isStartingRef.current) return
AlreadyStarting(v) == v.isStarting

\* handleStart up to its await.
HandleStart ==
    /\ StartButtonShown(view)
    /\ view.taps < MaxTaps
    /\ view' = IF AlreadyStarting(view)
               THEN [view EXCEPT !.taps = @ + 1]
               ELSE [view EXCEPT !.taps = @ + 1, !.isStarting = TRUE,
                                 !.hasStarted = TRUE, !.outstanding = @ + 1,
                                 !.calls = @ + 1]
    /\ UNCHANGED <<hookVars, route>>

\* connect() settles: the finally block of handleStart.
ConnectSettled(ok) ==
    /\ view.outstanding > 0
    /\ view' = [view EXCEPT !.outstanding = @ - 1, !.isStarting = FALSE,
                            !.settled = IF ok THEN "resolved" ELSE "rejected"]
    /\ UNCHANGED <<hookVars, route>>

ViewNext ==
    \/ \E s \in Statuses : StatusChanges(s)
    \/ \E created \in BOOLEAN : VisibilityChange(created)
    \/ TranscriptChanges
    \/ HandleStart
    \/ \E ok \in BOOLEAN : ConnectSettled(ok)

ViewSpec == Init /\ [][ViewNext]_vars

\* ------------------------------------------------------------ behaviour
Next ==
    \/ \E i \in ConnIds : Connect(i)
    \/ \E i \in ConnIds : ConnectAfterTeardown(i)
    \/ \E i \in ConnIds, granted \in BOOLEAN, audio \in AudioStates :
            MicSettled(i, granted, audio)
    \/ \E i \in ConnIds, ok \in BOOLEAN : ResumeSettled(i, ok)
    \/ \E i \in ConnIds, outcome \in FetchOutcomes : FetchSettled(i, outcome)
    \/ \E i \in ConnIds, ok \in BOOLEAN : JsonSettled(i, ok)
    \/ \E i \in ConnIds, ok \in BOOLEAN : StartSettled(i, ok)
    \/ \E d \in DiscIds : Disconnect(d)
    \/ \E d \in DiscIds, ok \in BOOLEAN : EndSessionSettled(d, ok)
    \/ \E d \in DiscIds : DisconnectReturn(d)
    \/ Mount
    \/ Unmount
    \/ CleanupTimerFires
    \/ \E threw \in BOOLEAN : BeforeUnload(threw)
    \/ \E i \in ConnIds : OnConnect(i)
    \/ \E i \in ConnIds : OnDisconnect(i)
    \/ \E i \in ConnIds : OnError(i)
    \/ \E i \in ConnIds, m \in Messages : OnMessage(i, m)

Spec == Init /\ [][Next]_vars

\* =============================================================== claims
\* connect() invocations made so far, and those that passed the overlap check
Called == {i \in ConnIds : conn[i].pc # "idle"}
Passed == {i \in ConnIds : conn[i].pc # "idle" /\ ~conn[i].overlap}
\* startSession() calls made so far
NumStarts == Cardinality({i \in ConnIds : sess[i] # "none"})
\* this step is the onDisconnect callback of some session
OnDisconnectStep ==
    /\ conn' = conn
    /\ \E i \in ConnIds : sess[i] \in {"open", "closing"} /\ sess'[i] = "closed"

\* C1: at most one startSession() is in flight at any time, and a connect() that
\* was invoked while isConnecting was true returned at once without ever reaching
\* startSession().
C1_SingleStartInFlight ==
    /\ Cardinality({i \in ConnIds : conn[i].pc = "awaitStart"}) <= 1
    /\ \A i \in ConnIds : conn[i].overlap => conn[i].pc = "done" /\ sess[i] = "none"

C1_Witness ==
    \E i, j \in ConnIds : conn[i].pc = "awaitStart" /\ conn[j].overlap

\* C2: after mount, one connect(), unmount, no remount and no other connect(),
\* once the cleanup delay has elapsed endSession() has been called exactly once by
\* the delayed cleanup.
C2_UnmountTerminatesOnce ==
    ( /\ Cardinality(Called) = 1
      /\ hist.passedAtUnmount = 1
      /\ hist.unmounts = 1
      /\ hist.mounts = 0
      /\ hist.timerFires = 1 )
    => hist.endByCleanup = 1

\* C3: connect(), unmount, remount before the cleanup delay elapses (the timer never
\* fires while unmounted), nothing else asking for a teardown: endSession() is never
\* called and one connect() leads to at most one startSession(), exactly one when
\* it succeeds.
C3_Scenario ==
    /\ Cardinality(Called) = 1
    /\ hist.endByDisconnect = 0
    /\ hist.endByUnload = 0
    /\ hist.firedUnmounted = 0

C3_RemountKeepsSession ==
    C3_Scenario =>
        /\ hist.endByCleanup = 0
        /\ NumStarts <= 1
        /\ (\E i \in ConnIds : conn[i].end = "ok") => NumStarts = 1

C3_Witness ==
    /\ C3_Scenario
    /\ mounted /\ hist.unmounts = 1 /\ hist.mounts = 1 /\ hist.passedAtUnmount = 1
    /\ \E i \in ConnIds : conn[i].end = "ok" /\ sess[i] = "open"

\* C4: connect() never invokes startSession() while an endSession() issued by
\* disconnect() is still in flight.
C4_NoStartDuringTeardown ==
    [][\A i \in ConnIds :
          (conn[i].pc # "awaitStart" /\ conn'[i].pc = "awaitStart")
              => \A d \in DiscIds : disc[d].pc # "awaitEnd"]_vars

\* C6: a disconnect() whose endSession() settled, resolved or rejected, never ends
\* rejected itself, and when it returns it has set status to disconnected.
C6_DisconnectAlwaysDisconnected ==
    \A d \in DiscIds :
        /\ disc[d].pc # "threw"
        /\ disc[d].pc = "done" => disc[d].statusAtReturn = "disconnected"

C6_Witness ==
    \E d \in DiscIds :
        disc[d].pc = "done" /\ disc[d].ended = "rejected" /\ status = "disconnected"

\* C7 (as claimed): the transcript is reset only for a connect() that reaches the
\* microphone request: whenever no connect() is on the point of reaching it, the
\* resets so far are as many as the invocations that reached it.
C7_ResetOnlyAtMicRequest ==
    (\A i \in ConnIds : conn[i].pc = "waitTeardown" => ~TeardownAwaited(i))
        => hist.resets = Cardinality({i \in ConnIds : conn[i].gen > 0})

\* C7 (amended): the transcript is reset exactly once for each connect() that passes
\* the overlap check, at the moment it passes, and it never gets shorter otherwise.
C7_ResetPerPassedConnect ==
    /\ [](hist.resets = Cardinality(Passed))
    /\ [][/\ hist'.resets # hist.resets =>
                /\ hist'.resets = hist.resets + 1
                /\ transcript' = <<>>
                /\ \E i \in ConnIds : conn[i].pc = "idle" /\ conn'[i].pc = "waitTeardown"
          /\ Len(transcript') < Len(transcript) => hist'.resets # hist.resets]_vars

C7_Witness ==
    /\ hist.resets = 1
    /\ \E i \in ConnIds : conn[i].pc = "waitTeardown" /\ ~TeardownAwaited(i)
    /\ \E i \in ConnIds : conn[i].overlap

\* C8: the transcript is the message callbacks received since the last reset, in
\* arrival order, source "ai" as role agent and any other source as role user; a
\* message callback appends one entry, keeps the earlier ones and keeps status.
C8_TranscriptIsMessagesInOrder ==
    /\ [](/\ Len(transcript) = Len(hist.received)
          /\ \A k \in 1..Len(transcript) :
                /\ transcript[k].role =
                      (IF hist.received[k].source = "ai" THEN "agent" ELSE "user")
                /\ transcript[k].text = hist.received[k].message)
    /\ [][clock' # clock =>
              /\ Len(transcript') = Len(transcript) + 1
              /\ SubSeq(transcript', 1, Len(transcript)) = transcript
              /\ status' = status]_vars

C8_Witness ==
    /\ status = "connected"
    /\ hist.resets = 1
    /\ Len(transcript) = 2
    /\ transcript[1].role = "agent" /\ transcript[1].text = "Welcome"
    /\ transcript[2].role = "user" /\ transcript[2].text = "hi"

\* this step is the rejection of the microphone request of invocation i
MicDeniedStep(i) == conn[i].pc = "awaitMic" /\ conn'[i].end = "micDenied"

C10_LateDisconnectKeepsStatus ==
    [][( /\ status = "disconnected"
         /\ \E d \in DiscIds : disc[d].pc = "done"
         /\ \E i \in ConnIds : conn[i].end = "ok"
         /\ OnDisconnectStep )
       => status' = "disconnected"]_vars

C10_Witness == hist.lateDisconnect /\ status = "disconnected"


\* sessions the hook started that are live and that it has not asked to end
Live == {j \in ConnIds : sess[j] \in {"starting", "open"}}
\* this step is connect() i calling startSession()
StartStep(i) == conn[i].pc = "awaitJson" /\ conn'[i].pc = "awaitStart"
\* this step is connect() i being invoked
ConnectStep(i) == conn[i].pc = "idle" /\ conn'[i].pc # "idle"

\* C11: the hook never calls startSession() while a session it started earlier is
\* still live and endSession() has not been called on it, so that at most one
\* started session is live at any time.
C11_NoStartWhileLive ==
    [][\A i \in ConnIds : StartStep(i) => Live = {}]_vars

\* connect() invocations that passed the overlap check and resumed after
\* waitForTeardown()
PastWait == {i \in Passed : conn[i].pc # "waitTeardown"}
\* no connect() is about to resume from waitForTeardown()
NoneResuming ==
    \A i \in ConnIds : conn[i].pc = "waitTeardown" =>
        /\ conn[i].awaited # NoTeardown
        /\ ~TeardownSettled(conn[i].awaited)

\* C12 (as first stated): whenever no connect() is about to resume, the generation
\* counter equals the number of connect() invocations that passed the overlap check.
C12_GenerationCountsPassed ==
    NoneResuming => generation = Cardinality(Passed)

\* C12: the generation counter starts at 0, never decreases, and always equals the
\* number of connect() invocations that passed the overlap check and resumed after
\* the wait for the teardown handle; each of them increments it by one as it
\* resumes, and no other step changes it.
C12_GenerationCountsResumed ==
    /\ [](generation = Cardinality(PastWait) /\ generation <= Cardinality(Passed))
    /\ [][/\ generation' >= generation
          /\ generation' # generation =>
                /\ generation' = generation + 1
                /\ \E i \in ConnIds : /\ conn[i].pc = "waitTeardown"
                                      /\ conn'[i].pc = "awaitMic"
                                      /\ conn'[i].gen = generation']_vars

\* two connect() calls passed the overlap check; the first minted generation 1, the
\* second is still waiting for the teardown of a disconnect()
C12_Witness ==
    /\ generation = 1
    /\ Cardinality(Passed) = 2
    /\ \E i \in ConnIds : conn[i].pc = "waitTeardown" /\ conn[i].pendingAtPass # NoTeardown

\* C13 (as first stated): a connect() invoked while isConnecting is true changes
\* nothing, the pending cleanup timer included.
C13_OverlappedConnectTouchesNothing ==
    [][\A i \in ConnIds : (ConnectStep(i) /\ isConnecting) =>
            UNCHANGED <<status, transcript, generation, teardownPromise,
                        userDisconnected, isConnecting, cleanupTimer>>]_vars

\* C13: a connect() invoked while isConnecting is true leaves status, transcript,
\* generation, the teardown handle, the user-disconnected flag and isConnecting
\* unchanged and returns at once; it does cancel a pending cleanup timer.
C13_OverlappedConnectOnlyCancelsTimer ==
    [][\A i \in ConnIds : (ConnectStep(i) /\ isConnecting) =>
            /\ UNCHANGED <<status, transcript, generation, teardownPromise,
                           userDisconnected, isConnecting, sess>>
            /\ conn'[i].pc = "done"
            /\ cleanupTimer' = NoTimer]_vars

\* a connect() passed, the component unmounted, and a second connect(), invoked
\* while the first was in flight, cancelled the timer of that unmount
C13_Witness ==
    /\ \E i \in ConnIds : conn[i].overlap /\ conn[i].end = "noop"
    /\ Cardinality(Called) = 2
    /\ hist.unmounts = 1 /\ hist.mounts = 0 /\ hist.passedAtUnmount = 1
    /\ hist.timerFires = 0
    /\ ~mounted /\ ~cleanupTimer.armed


\* connect() invocations that passed the overlap check and have not returned
InFlight == {i \in ConnIds : conn[i].pc \notin {"idle", "done"}}

\* C14: isConnecting is true exactly while a connect() that passed the overlap check
\* has not yet returned, and it is false right after such an invocation returns,
\* whether it succeeded or failed.
C14_IsConnectingWhileInFlight ==
    /\ [](isConnecting <=> InFlight # {})
    /\ [][\A i \in ConnIds :
            (i \in InFlight /\ conn'[i].pc = "done") => ~isConnecting']_vars

\* one connect() returned by success, one by a rejected startSession(), one by a
\* refused credential exchange, and isConnecting is false
C14_Witness ==
    /\ ~isConnecting
    /\ \E i, j, k \in ConnIds : /\ conn[i].end = "ok"
                                /\ conn[j].end = "startFailed"
                                /\ conn[k].end = "notOk"

\* C15: a connect() whose fetch of the signed URL returns a non-success response
\* never calls startSession() and returns with status error; a connect() whose
\* startSession() rejects returns with status error.
C15_FailedAttemptEndsInError ==
    /\ [](\A i \in ConnIds : /\ sess[i] # "none" => conn[i].res = "ok"
                             /\ conn[i].end = "notOk" => sess[i] = "none")
    /\ [][\A i \in ConnIds :
            /\ (conn[i].pc = "awaitFetch" /\ conn'[i].pc = "done") =>
                    status' = "error" /\ sess'[i] = "none"
            /\ (conn[i].pc = "awaitStart" /\ conn'[i].end = "startFailed") =>
                    status' = "error"]_vars

\* a connect() ended on a non-success response without a session and another ended
\* on a rejected startSession(); status is error
C15_Witness ==
    /\ status = "error"
    /\ \E i \in ConnIds : conn[i].end = "notOk" /\ sess[i] = "none"
    /\ \E j \in ConnIds : conn[j].end = "startFailed" /\ sess[j] = "closed"

\* a disconnect() is waiting for its endSession()
TearingDown == \E d \in DiscIds : disc[d].pc = "awaitEnd"
\* this step is an onError callback that changes status
OnErrorStep ==
    /\ status' # status
    /\ UNCHANGED <<transcript, guardVars, userDisconnected, lifecycleVars,
                   conn, disc, sess, clock, hist>>

\* C16: an onError callback that arrives while a connect() is in flight or while a
\* disconnect() is waiting for endSession() leaves status unchanged.
C16_NoErrorWhileSequencing ==
    [][OnErrorStep => ~(isConnecting \/ TearingDown)]_vars


\* this step is disconnect() d being invoked
DisconnectStep(d) == disc[d].pc = "idle" /\ disc'[d].pc # "idle"

C18_CleanupOnlyForSameGeneration ==
    [][hist'.endByCleanup # hist.endByCleanup =>
            /\ generation = hist.genAtUnmount
            /\ \A i \in ConnIds : conn[i].gen <= hist.genAtUnmount]_vars

\* the timer of an unmount fired with the generation unchanged since that unmount
\* and called endSession()
C18_Witness ==
    /\ hist.endByCleanup = 1
    /\ hist.firedUnmounted = 1
    /\ generation = hist.genAtUnmount

\* C19: connect() and a mount each leave no cleanup timer pending, a timer is armed
\* only by an unmount, and a timer fires only while the component is still
\* unmounted and no connect() has passed since the unmount that armed it: a timer
\* that was pending at a connect() or a mount never fires.
C19_CancelledCleanupNeverFires ==
    /\ [][((\E i \in ConnIds : ConnectStep(i)) \/ (~mounted /\ mounted')) =>
                ~cleanupTimer'.armed]_vars
    /\ [][(~cleanupTimer.armed /\ cleanupTimer'.armed) => (mounted /\ ~mounted')]_vars
    /\ [][hist'.timerFires # hist.timerFires =>
            /\ cleanupTimer.armed
            /\ ~mounted
            /\ hist.resets = hist.passedAtUnmount]_vars

\* the timer of a first unmount was cancelled by the remount, the timer of a second
\* unmount by a connect(); neither fired
C19_Witness ==
    /\ hist.unmounts = 2 /\ hist.mounts = 1
    /\ hist.resets = hist.passedAtUnmount + 1
    /\ hist.timerFires = 0
    /\ ~mounted /\ ~cleanupTimer.armed

\* C20: a connect() that found an unsettled teardown handle when it passed the
\* overlap check mints its generation, and is at any later step, only once that
\* teardown has settled.
C20_ConnectWaitsForTeardown ==
    /\ [](\A i \in ConnIds :
            (conn[i].pendingAtPass # NoTeardown /\ conn[i].pc # "waitTeardown") =>
                TeardownSettled(conn[i].pendingAtPass))
    /\ [][\A i \in ConnIds :
            (conn[i].pendingAtPass # NoTeardown /\ conn'[i].gen # conn[i].gen) =>
                TeardownSettled(conn[i].pendingAtPass)]_vars

\* a connect() that found a disconnect() still waiting for endSession() went on to
\* start a session after that teardown settled
C20_Witness ==
    \E i \in ConnIds : /\ conn[i].pendingAtPass # NoTeardown
                       /\ conn[i].gen > 0
                       /\ conn[i].end = "ok"


\* C21: while the endSession() of a disconnect() is in flight the teardown handle
\* is set, so that a connect() finds it and waits.
C21_HandleSetWhileTerminating ==
    TearingDown => teardownPromise # NoTeardown

\* C22: a connect() invoked while status is error passes the overlap check and
\* resets the transcript, the generation a connect() mints is strictly greater
\* than every generation minted before, and status error implies that
\* isConnecting is false.
C22_RetryStartsFromScratch ==
    /\ [](status = "error" => ~isConnecting)
    /\ [][\A i \in ConnIds :
            /\ (ConnectStep(i) /\ status = "error") =>
                    /\ conn'[i].pc = "waitTeardown"
                    /\ ~conn'[i].overlap
                    /\ transcript' = <<>>
                    /\ isConnecting'
            /\ conn'[i].gen # conn[i].gen =>
                    /\ conn'[i].gen > generation
                    /\ \A j \in ConnIds : conn'[i].gen > conn[j].gen]_vars

\* a first connect() failed on the microphone, leaving status error with no
\* session; a second connect() then passed and minted generation 2
C22_Witness ==
    /\ Cardinality(Called) = 2 /\ hist.ops = 2
    /\ \E i, j \in ConnIds : /\ conn[i].end = "micDenied" /\ conn[i].gen = 1
                             /\ conn[j].gen = 2 /\ ~conn[j].overlap
    /\ transcript = <<>>


\* an environment value that is unset or empty
Unset(v) == v \in {Undefined, ""}
\* a response with a status in the range 200-299
Success(resp) == resp.status >= 200 /\ resp.status <= 299

\* C23: the route answers with a non-success status and an error payload when the
\* agent id or the API key is missing, when the upstream response is not ok and
\* when the upstream request throws; it sends no upstream request when the
\* configuration is missing; a success response is given only for an ok upstream
\* response and carries its signed URL.
C23_RouteFailsWithError ==
    \A r \in Runs :
        LET missing == Unset(route[r].agentId) \/ Unset(route[r].apiKey)
            up == route[r].upstream
            resp == route[r].response
        IN  /\ missing => route[r].request = NoRequest /\ up = NoOutcome
            /\ route[r].pc = "done" =>
                /\ (\/ missing
                    \/ up.kind = "throws"
                    \/ up.kind = "response" /\ ~UpstreamOk(up)) =>
                        /\ ~Success(resp)
                        /\ resp.error # "none"
                        /\ resp.signedUrl = "none"
                /\ Success(resp) =>
                        /\ up.kind = "response" /\ UpstreamOk(up)
                        /\ resp.signedUrl = up.body
                        /\ resp.error = "none"

\* one invocation without an API key answered 500 without an upstream request; the
\* other, configured, passed on the signed URL of an ok upstream response
C23_Witness ==
    /\ route["a"].pc = "done" /\ Unset(route["a"].apiKey)
    /\ route["a"].request = NoRequest /\ route["a"].response.status = 500
    /\ route["b"].pc = "done" /\ Success(route["b"].response)
    /\ route["b"].response.signedUrl = "wss://signed-1"

\* C24: no response of the route is or carries the API key or the agent id, and
\* two invocations that differ only in the API key and get the same upstream
\* outcome give the same response.
C24_ResponseIndependentOfKey ==
    /\ \A r \in Runs : \A secret \in {route[r].agentId, route[r].apiKey} :
            (route[r].pc = "done" /\ ~Unset(secret)) =>
                /\ route[r].response.error # secret
                /\ route[r].response.signedUrl # secret
    /\ (/\ route["a"].pc = "done" /\ route["b"].pc = "done"
        /\ route["a"].upstream = route["b"].upstream) =>
            route["a"].response = route["b"].response

\* two invocations with different keys both got a 401 from upstream and gave the
\* same response
C24_Witness ==
    /\ route["a"].apiKey = "key-1" /\ route["b"].apiKey = "key-2"
    /\ route["a"].pc = "done" /\ route["b"].pc = "done"
    /\ route["a"].upstream.status = 401
    /\ route["a"].upstream = route["b"].upstream
    /\ route["a"].response = route["b"].response

\* this step is the beforeunload handler
UnloadStep == hist'.ops # hist.ops /\ UNCHANGED <<conn, disc, mounted, clock>>
\* this step makes a live session start closing
EndsSessions ==
    \E i \in ConnIds : sess[i] \in {"starting", "open"} /\ sess'[i] = "closing"

\* C25: while the component is mounted, sessions are ended only by disconnect()
\* or by the beforeunload handler: the cleanup timer does not end them, and no
\* callback or step of connect() does.
C25_NoAutomaticTeardownWhileMounted ==
    [][mounted =>
            /\ hist'.endByCleanup = hist.endByCleanup
            /\ EndsSessions => \/ \E d \in DiscIds : DisconnectStep(d)
                               \/ UnloadStep]_vars

\* after an unmount and a remount the session is open and has delivered a message,
\* and endSession() was never called
C25_Witness ==
    /\ mounted /\ hist.mounts >= 1
    /\ hist.endByDisconnect = 0 /\ hist.endByUnload = 0 /\ hist.endByCleanup = 0
    /\ Len(transcript) >= 1
    /\ \E i \in ConnIds : sess[i] = "open" /\ conn[i].end = "ok"

\* C26: a connect() starts a session at most once, only after its microphone
\* request was granted and then its fetch and res.json() succeeded, and gives
\* startSession() the signed URL that res.json() returned.
C26_StartOnceAfterMicAndExchange ==
    /\ [](\A i \in ConnIds : sess[i] # "none" =>
            /\ conn[i].fetched /\ conn[i].res = "ok"
            /\ conn[i].end \notin {"noop", "micDenied"}
            /\ conn[i].signedUrl # 0
            /\ conn[i].startedWith = conn[i].signedUrl)
    /\ [][\A i \in ConnIds :
            /\ StartStep(i) => sess[i] = "none" /\ conn[i].res = "ok"
            /\ (sess'[i] = "starting" /\ sess[i] # "starting") =>
                    StartStep(i) /\ sess[i] = "none"
            /\ (conn'[i].fetched /\ ~conn[i].fetched) =>
                    conn[i].pc \in {"awaitMic", "awaitResume"}]_vars

\* two connect() invocations each started a session with their own signed URL
C26_Witness ==
    \E i, j \in ConnIds :
        /\ i # j /\ sess[i] # "none" /\ sess[j] # "none"
        /\ conn[i].startedWith = SignedUrlFor(i)
        /\ conn[j].startedWith = SignedUrlFor(j)

\* connect() i is waiting for its fetch, its res.json() or its startSession()
Hung(i) == conn[i].pc \in {"awaitFetch", "awaitJson", "awaitStart"}
\* this step is a callback of the SDK
EventStep ==
    \/ OnErrorStep
    \/ clock' # clock
    \/ conn' = conn /\ \E i \in ConnIds : sess'[i] # sess[i] /\ sess'[i] \in {"open", "closed"}
\* this step is a disconnect() returning
DisconnectReturnStep ==
    \E d \in DiscIds : disc[d].pc = "awaitTeardown" /\ disc'[d].pc = "done"

\* C27 (as first stated): while the fetch or the startSession() of a connect() has
\* not settled and the SDK reports nothing, status stays connecting, isConnecting
\* stays true and every connect() is a no-op.
C27_HungAttemptStaysConnecting ==
    [][\A i \in ConnIds : (Hung(i) /\ conn'[i].pc = conn[i].pc /\ ~EventStep) =>
            /\ status = "connecting" => status' = "connecting"
            /\ isConnecting /\ isConnecting'
            /\ \A j \in ConnIds : ConnectStep(j) => conn'[j].end = "noop"]_vars

\* C27: while the fetch or the startSession() of a connect() has not settled and
\* the SDK reports nothing, isConnecting stays true, every connect() is a no-op
\* and status never becomes error; status stays as it is except that a
\* disconnect() that returns sets it to disconnected.
C27_HungAttemptStaysInFlight ==
    [][\A i \in ConnIds : (Hung(i) /\ conn'[i].pc = conn[i].pc /\ ~EventStep) =>
            /\ IF DisconnectReturnStep THEN status' = "disconnected"
                                       ELSE status' = status
            /\ isConnecting /\ isConnecting'
            /\ \A j \in ConnIds : ConnectStep(j) => conn'[j].end = "noop"]_vars

\* a connect() is waiting for startSession(), a later connect() returned at once,
\* and status is still connecting
C27_Witness ==
    /\ status = "connecting" /\ isConnecting
    /\ \E i, j \in ConnIds : /\ conn[i].pc = "awaitStart" /\ sess[i] = "starting"
                             /\ conn[j].end = "noop"

\* C28: a failure of the AudioContext warm-up never makes connect() fail and never
\* changes status: connect() goes on to the fetch as after a successful warm-up.
C28_UnlockFailureSwallowed ==
    /\ [](\A i \in ConnIds :
            /\ conn[i].end # "unlockFailed"
            /\ conn[i].unlock # "none" => conn[i].pc = "awaitFetch" /\ conn[i].fetched)
    /\ [][\A i \in ConnIds :
            (conn[i].pc \in {"awaitMic", "awaitResume"} /\ conn'[i].unlock # "none") =>
                /\ status' = status
                /\ isConnecting'
                /\ conn'[i].pc = "awaitFetch"]_vars

\* the warm-up failed and connect() is waiting for its fetch, status connecting
C28_Witness ==
    \E i \in ConnIds : /\ conn[i].unlock = "failed" /\ conn[i].pc = "awaitFetch"
                       /\ status = "connecting" /\ isConnecting

\* C29: connect() holds the microphone stream only while the warm-up is pending:
\* not once the fetch has been issued or a session was started, and not after it
\* has returned.
C29_StreamReleasedBeforeFetch ==
    \A i \in ConnIds :
        /\ conn[i].stream => conn[i].pc = "awaitResume"
        /\ (conn[i].fetched \/ sess[i] # "none" \/ conn[i].pc = "done") => ~conn[i].stream

\* a connect() whose microphone request was granted has issued its fetch and
\* started a session, and holds no stream
C29_Witness ==
    \E i \in ConnIds : /\ conn[i].fetched /\ sess[i] = "starting"
                       /\ conn[i].pc = "awaitStart" /\ ~conn[i].stream

Minted == {i \in InFlight : conn[i].pc # "waitTeardown"}

C34_EarlierDisconnectKeepsStatus ==
    [][\A i \in InFlight : \A d \in DiscIds :
            (/\ conn[i].pendingAtPass = d
             /\ disc[d].pc = "awaitTeardown" /\ disc'[d].pc = "done") =>
                status' = status]_vars

\* C35: a connect() does not call startSession() once disconnect() has been invoked
\* since it passed the overlap check.
C35_NoStartAfterDisconnect ==
    [][\A i \in ConnIds : StartStep(i) => ~userDisconnected]_vars

\* C36: whenever status is connected, some session has reported onConnect and has
\* not reported onDisconnect since.
C36_ConnectedMeansLive ==
    status = "connected" => \E i \in ConnIds : sess[i] \in {"open", "closing"}

\* the connect() that last passed the overlap check
Latest(i) == i \in Passed /\ \A j \in Passed : j <= i

\* C37: a message is appended to the transcript only while the session started by
\* the connect() that last reset the transcript can emit one.
C37_OnlyCurrentSessionSpeaks ==
    [][clock' # clock =>
            \E i \in ConnIds : Latest(i) /\ sess[i] \in {"open", "closing"}]_vars


\* An awaited operation settles and the continuation of its caller runs.
Settle ==
    \/ \E i \in ConnIds :
        \/ ConnectAfterTeardown(i)
        \/ \E granted \in BOOLEAN, audio \in AudioStates : MicSettled(i, granted, audio)
        \/ \E ok \in BOOLEAN : ResumeSettled(i, ok)
        \/ \E outcome \in FetchOutcomes : FetchSettled(i, outcome)
        \/ \E ok \in BOOLEAN : JsonSettled(i, ok)
        \/ \E ok \in BOOLEAN : StartSettled(i, ok)
    \/ \E d \in DiscIds :
        \/ \E ok \in BOOLEAN : EndSessionSettled(d, ok)
        \/ DisconnectReturn(d)

\* The hook with every awaited operation settling: a run never stops while the
\* continuation of some awaited operation can still run.
FairSpec == Spec /\ WF_vars(Settle)

\* no connect() and no disconnect() is between its invocation and its return
Quiet ==
    /\ \A i \in ConnIds : conn[i].pc \in {"idle", "done"}
    /\ \A d \in DiscIds : disc[d].pc \in {"idle", "done"}

\* C39: if every awaited operation eventually settles, every connect() and every
\* disconnect() that was invoked eventually returns: from every point of a run a
\* point follows where every invocation made so far has returned.
C39_EveryCallReturns == []<>Quiet

\* a connect() that found the teardown of a disconnect() pending has returned, and
\* so has that disconnect()
C39_Witness ==
    \E i \in ConnIds :
        /\ conn[i].pendingAtPass # NoTeardown /\ conn[i].pc = "done"
        /\ conn[i].end # "noop"
        /\ disc[conn[i].pendingAtPass].pc = "done"


\* C31: whenever status is connected and the page is hidden, the silent keep-alive
\* signal is active.
C31_KeepAliveWhileHidden ==
    (view.status = "connected" /\ view.hidden) => view.signal

\* C32: at most one connect() call of handleStart is outstanding, the starting flag
\* is set exactly while one is, so it is cleared when connect() settles either way,
\* and a tap while a call is outstanding calls nothing.
C32_OneOutstandingConnect ==
    /\ [](/\ view.outstanding <= 1
          /\ view.isStarting <=> view.outstanding = 1)
    /\ [][(view'.taps # view.taps /\ view.outstanding > 0) =>
                view'.calls = view.calls]_vars

\* a tap was ignored, and the one connect() called has rejected and left the flag clear
C32_Witness ==
    /\ view.taps = 2 /\ view.calls = 1
    /\ view.settled = "rejected" /\ ~view.isStarting /\ view.outstanding = 0

\* C38: the keep-alive signal is active only while status is connected and the page
\* is hidden, and the effect never has more than one open audio context.
C38_OneKeepAliveOnlyWhileHidden ==
    /\ view.signal => (view.status = "connected" /\ view.hidden)
    /\ view.contexts <= 1

\* the keep-alive is running in a second context, after an earlier one was closed
C38_Witness ==
    /\ view.signal /\ view.contexts = 1 /\ view.closedOne
    /\ view.status = "connected" /\ view.hidden

====
